---- MODULE Spec2Model ----
(***************************************************************************)
(* The ARIA browser front end (troubleshoot-agent/static/app.js, the       *)
(* second, DOM-ready version of the script: lines 295-679) as a state      *)
(* machine: the page's module-level variables, the DOM lists the handlers  *)
(* write to, the requests in flight, and one action per event handler or   *)
(* per continuation of an awaited call.                                    *)
(*                                                                         *)
(* Text is a sequence of characters (one-character strings), so that trim  *)
(* and slice are computed; the fixed messages of the script are kept as a  *)
(* one-element sequence holding the literal.                               *)
(***************************************************************************)
EXTENDS Integers, Sequences, FiniteSets, TLC

\* ---------------------------------------------------------------- bounds
\* Chat requests issued in one page load.
MaxSends == 2
\* Presses of the hold-to-speak control in one page load.
MaxPresses == 2
\* Page loads (the first load and the reloads after it).
MaxLoads == 2
\* Turns of the history the session endpoint returns.
MaxHistory == 2
\* Files the user drops or selects on one page.
MaxFiles == 2

\* ------------------------------------------------------- program constants
\* updateContext: data.text.slice(0, 60)
StepPreviewLen == 60

None == "none"

\* ------------------------------------------------------------------- text
Space == " "
IsSpace(c) == c \in {" ", "\t", "\n"}

RECURSIVE TrimStart(_)
TrimStart(s) ==
  IF s = <<>> THEN s
  ELSE IF IsSpace(Head(s)) THEN TrimStart(Tail(s)) ELSE s

RECURSIVE TrimEnd(_)
TrimEnd(s) ==
  IF s = <<>> THEN s
  ELSE IF IsSpace(s[Len(s)]) THEN TrimEnd(SubSeq(s, 1, Len(s) - 1)) ELSE s

\* String.prototype.trim
Trim(s) == TrimEnd(TrimStart(s))

\* String.prototype.slice(0, n)
Slice0(s, n) == SubSeq(s, 1, IF Len(s) < n THEN Len(s) ELSE n)

\* What the user can have typed.
TypedTexts == { <<>>, <<" ">>, <<" ", "h", "i", " ">> }
\* What the transcription service can return.
TranscriptTexts == { <<>>, <<" ">>, <<"h", "i">>, <<" ", "h", "i", " ">> }

SentAnImage == << "(Sent an image)" >>
SeeAttachedImage == << "(See attached image)" >>
OpeningText == << "Hello, I'm ARIA. What iPhone issue can I help you troubleshoot today?" >>
ApologyText == << "Sorry, something went wrong. Please try again." >>
ServerNoticeText == << "Could not reach the server. Start it with: python main.py" >>

\* Voice status line texts.
StThinking == "Thinking..."
StTranscribing == "Transcribing..."
StTranscriptionFailed == "Transcription failed."
StListening == "Listening..."
StMicNeeded == "Microphone access needed for voice."

\* --------------------------------------------------------- server replies
ShortText == << "o", "k" >>
LongText == [i \in 1..(StepPreviewLen + 1) |-> "x"]

\* A cited source: a plain string (kept in url), or an object {url?, title?}.
StrSource(s) == [kind |-> "string", url |-> s, title |-> None]
ObjSource(u, t) == [kind |-> "object", url |-> u, title |-> t]

HttpStrings == { "https://support.apple.com/en-us/HT201569" }
\* String(url).startsWith('http')
StartsWithHttp(s) == s \in HttpStrings

Step(p, t) == [phase |-> p, text |-> t]

\* data.steps absent is NoSteps; an array (possibly empty) is [present, items].
NoSteps == [present |-> FALSE, items |-> <<>>]
Steps(items) == [present |-> TRUE, items |-> items]

Reply(t, src, st, au) == [text |-> t, sources |-> src, steps |-> st, audio |-> au]

\* A reply with text, one non-HTTP string source and one observe step.
ReplyPlain ==
  Reply(ShortText, << StrSource("battery_drain_basics.md") >>,
        Steps(<< Step("observe", << "b" >>) >>), None)
\* A reply whose sources are labelled objects, with speech audio.
ReplyObjects ==
  Reply(ShortText,
        << ObjSource("https://support.apple.com/en-us/HT201569", "Apple Support") >>,
        NoSteps, "mp3")
\* A reply with nothing in it.
ReplyEmpty == Reply(<<>>, <<>>, NoSteps, None)
\* A long reply with an HTTP string source and two steps.
ReplyLong ==
  Reply(LongText, << StrSource("https://support.apple.com/en-us/HT201569") >>,
        Steps(<< Step("think", << "t" >>), Step("act", << "a" >>) >>), None)

Replies == { ReplyPlain, ReplyObjects, ReplyEmpty, ReplyLong }
\* A reply with one step of each phase, and one whose steps array is empty.
ReplyAllPhases ==
  Reply(ShortText, <<>>,
        Steps(<< Step("think", << "t" >>), Step("act", << "a" >>),
                 Step("observe", << "b" >>) >>), None)
ReplyEmptySteps == Reply(ShortText, <<>>, Steps(<<>>), None)
\* Replies with and without a steps array.
StepReplies == { ReplyLong, ReplyAllPhases, ReplyEmptySteps, ReplyObjects }
NoReply == Reply(<<>>, <<>>, NoSteps, None)

\* ------------------------------------------------------------ identifiers
NoId == [kind |-> "none", n |-> 0]
\* crypto.randomUUID(): a fresh identifier per call.
Uuid(n) == [kind |-> "uuid", n |-> n]
\* 'aria-' + Date.now() + '-' + Math.random()...: a fresh identifier per call.
FallbackId(n) == [kind |-> "aria", n |-> n]

VARIABLES
  \* the browser around the script
  storageMode,        \* localStorage: "ok", "readonly" (setItem throws), "broken"
  storageValue,       \* localStorage['aria_session_id'] (NoId: not set)
  hasCrypto,          \* crypto.randomUUID is a function
  protocol,           \* window.location.protocol: "http" or "file"
  loads,              \* page loads so far
  prevSessionId,      \* the sessionId of the page load before this one
  kbDoc,              \* the knowledge-base file being read (0: none)
  kbRead,             \* its lines read so far
  page,               \* "unloaded", "waitingDom", "ready", "warned"
  press,              \* the pointer on the voice control: "none", "mouse", "touch"
  \* module-level variables of the script
  sessionId,
  mediaRecorder,      \* index into recorders, 0 for null
  stream,             \* index into streams, 0 for null
  audioChunks,        \* the recorders whose data was pushed
  currentImageBase64,
  domBound,           \* bindDom has filled the element handles
  listening,          \* setupListeners has added the listeners
  \* the DOM
  conversation,       \* the transcript's children
  textInput,          \* textInput.value
  voiceStatus,        \* voiceStatus.textContent
  holdRecording,      \* holdSpeak has the class 'recording'
  processStepsList, sourcesList, stepsList, docsList,
  fileWarning,        \* the file-protocol warning is displayed
  \* browser objects and calls in flight
  streams,            \* per acquired stream: its tracks are live
  recorders,          \* per MediaRecorder: [stream, state]
  gumReqs,            \* getUserMedia calls: "pending", "granted", "denied"
  transReqs,          \* POST /api/transcribe calls
  chatReqs,           \* POST /api/chat calls
  readers,            \* FileReader reads in flight (the base64 of each)
  initPc,             \* init: "none", "session", "docs", "done", "failed"
  initHistory,        \* what GET /api/session answered
  sessionAnswer,      \* how it answered: "none", "history", "bare", "non2xx", "rejected"
  sessionReqId,       \* the identifier in the path of GET /api/session/{id}
  batches,            \* drops and selections: [via, given, files]
  uploadReqs,         \* POST /api/upload-documents calls
  \* bookkeeping of the events themselves
  sendActions         \* send actions whose input is text or an image

kbVars == << kbDoc, kbRead >>
envVars == << storageMode, storageValue, hasCrypto, protocol, loads, prevSessionId,
             kbVars >>
domVars == << conversation, textInput, voiceStatus, holdRecording,
              processStepsList, sourcesList, stepsList, docsList, fileWarning >>
voiceVars == << press, mediaRecorder, stream, audioChunks, streams, recorders,
                gumReqs, transReqs >>
chatVars == << currentImageBase64, chatReqs, readers, sendActions >>
loadVars == << page, sessionId, domBound, listening, initPc, initHistory,
              sessionAnswer, sessionReqId >>
uploadVars == << batches, uploadReqs >>
vars == << envVars, domVars, voiceVars, chatVars, loadVars, uploadVars >>

\* ------------------------------------------------------------ transcript
NoImage == [mime |-> None, base64 |-> None]
\* `data:image/png;base64,${imageBase64}`
PngDataUrl(b64) == [mime |-> "image/png", base64 |-> b64]

\* One rendered source pill of an assistant message.
SourceHref(s) ==
  IF s.url # None /\ StartsWithHttp(s.url) THEN s.url ELSE "#"
SourceLabel(s) ==
  IF s.kind = "string" THEN s.url
  ELSE IF s.title # None THEN s.title
  ELSE IF s.url # None THEN s.url ELSE ""
SourcePill(s) == [href |-> SourceHref(s), label |-> SourceLabel(s)]
SourcePills(srcs) == [i \in 1..Len(srcs) |-> SourcePill(srcs[i])]

UserEntry(text, imageUrl) ==
  [cls |-> "user", text |-> text, image |-> imageUrl, sources |-> <<>>, audio |-> None]
AriaEntry(text, srcs, audio) ==
  [cls |-> "aria", text |-> text, image |-> NoImage,
   sources |-> SourcePills(srcs), audio |-> audio]
\* The div with id 'typing-indicator'.
TypingEntry ==
  [cls |-> "typing", text |-> <<>>, image |-> NoImage, sources |-> <<>>, audio |-> None]

ApologyEntry == AriaEntry(ApologyText, <<>>, None)
OpeningEntry == AriaEntry(OpeningText, <<>>, None)
ServerNoticeEntry == AriaEntry(ServerNoticeText, <<>>, None)

AppendUserMessage(conv, text, imageUrl) ==
  IF ~domBound THEN conv ELSE Append(conv, UserEntry(text, imageUrl))
AppendAriaMessage(conv, text, srcs, audio) ==
  IF ~domBound THEN conv ELSE Append(conv, AriaEntry(text, srcs, audio))
AppendTyping(conv) ==
  IF ~domBound THEN conv ELSE Append(conv, TypingEntry)

RECURSIVE RemoveFirstTyping(_)
RemoveFirstTyping(conv) ==
  IF conv = <<>> THEN conv
  ELSE IF Head(conv).cls = "typing" THEN Tail(conv)
  ELSE << Head(conv) >> \o RemoveFirstTyping(Tail(conv))

\* A removeTyping that removes nothing.
RemoveTypingNoOp(conv) == conv
\* document.getElementById('typing-indicator'): the first such element, if any.
RemoveTyping(conv) == RemoveFirstTyping(conv)

SetVoiceStatus(old, text) == IF domBound THEN text ELSE old

\* ------------------------------------------------------------- sendMessage
\* A sendMessage without its guard.
SendGuardAlways(text, img) == TRUE
\* if (!text.trim() && !imageBase64) return;
SendGuard(text, img) == Trim(text) # <<>> \/ img # None
\* A sendMessage that sends the text as it came.
MessageOfUntrimmed(text) == IF text # <<>> THEN text ELSE SentAnImage
\* const msg = text.trim() || '(Sent an image)';
MessageOf(text) == IF Trim(text) # <<>> THEN Trim(text) ELSE SentAnImage
\* if (imageBase64) currentImageBase64 = imageBase64;
RememberImage(img, remembered) == IF img # None THEN img ELSE remembered
\* A sendMessage that attaches only the image it was called with.
CarriedImageFreshOnly(img, remembered) == img
\* imageBase64 || currentImageBase64 || undefined
CarriedImage(img, remembered) ==
  IF img # None THEN img ELSE IF remembered # None THEN remembered ELSE None

\* The send has text or an image to send.
HasContent(text, img) ==
  (\E i \in 1..Len(text) : text[i] # Space) \/ img # None

ChatRequest(msg, img, fresh, via) ==
  [session |-> sessionId, message |-> msg, image |-> img, fresh |-> fresh,
   via |-> via, status |-> "pending", reply |-> NoReply, doneAt |-> 0]

\* An apiChat that fetches twice.
IssueChatTwice(reqs, msg, img, fresh, via) ==
  Append(Append(reqs, ChatRequest(msg, img, fresh, via)), ChatRequest(msg, img, fresh, via))
\* The chat requests apiChat issues for one call of sendMessage.
IssueChat(reqs, msg, img, fresh, via) ==
  Append(reqs, ChatRequest(msg, img, fresh, via))

\* sendMessage up to its await; statusIfIgnored is what the caller leaves in the
\* status line when sendMessage returns at its guard.
SendMessage(text, img, via, statusIfIgnored) ==
  /\ sendActions' = IF HasContent(text, img) THEN sendActions + 1 ELSE sendActions
  /\ IF ~SendGuard(text, img)
     THEN /\ voiceStatus' = statusIfIgnored
          /\ UNCHANGED << conversation, textInput, currentImageBase64, chatReqs >>
     ELSE /\ Len(chatReqs) < MaxSends
          /\ conversation' =
               AppendTyping(RemoveTyping(AppendUserMessage(conversation, MessageOf(text),
                  IF img # None THEN PngDataUrl(img) ELSE NoImage)))
          /\ textInput' = IF domBound THEN <<>> ELSE textInput
          /\ voiceStatus' = SetVoiceStatus(voiceStatus, StThinking)
          /\ currentImageBase64' = RememberImage(img, currentImageBase64)
          /\ chatReqs' = IssueChat(chatReqs, MessageOf(text),
                            CarriedImage(img, RememberImage(img, currentImageBase64)),
                            img, via)

\* ----------------------------------------------------------- updateContext
\* A label that is the same for every phase.
PhaseLabelObserveOnly(p) == "Observe: "
PhaseLabel(p) ==
  IF p = "think" THEN "Think: " ELSE IF p = "act" THEN "Act: " ELSE "Observe: "
ProcessStep(st) ==
  [cls |-> << "process-step-", IF st.phase # None THEN st.phase ELSE "observe" >>,
   text |-> << PhaseLabel(st.phase) >> \o st.text]
ProcessSteps(items) == [i \in 1..Len(items) |-> ProcessStep(items[i])]

\* data.sources.map(s => s.startsWith(...)): a source that is not a string has no
\* startsWith, and the call throws a TypeError.
UpdateContextThrows(d) ==
  domBound /\ Len(d.sources) > 0 /\ \E i \in 1..Len(d.sources) : d.sources[i].kind # "string"

SourceLink(s) == [href |-> IF StartsWithHttp(s.url) THEN s.url ELSE "#", label |-> s.url]
SourceLinks(srcs) == [i \in 1..Len(srcs) |-> SourceLink(srcs[i])]

\* data.text.slice(0, 60) + (data.text.length > 60 ? '...' : '')
StepPreview(text) ==
  Slice0(text, StepPreviewLen) \o (IF Len(text) > StepPreviewLen THEN << "..." >> ELSE <<>>)

\* The remembered image once the reply has been handled.
RememberedAfterReply(d, remembered) ==
  IF UpdateContextThrows(d) THEN remembered ELSE None

\* The transcript once the reply has been handled: the success path, and the
\* catch block when updateContext threw.
TranscriptAfterReply(conv, d) ==
  LET shown == AppendAriaMessage(RemoveTyping(conv), d.text, d.sources, d.audio)
  IN IF UpdateContextThrows(d)
     THEN AppendAriaMessage(RemoveTyping(shown), ApologyText, <<>>, None)
     ELSE shown

\* A catch block that leaves the typing indicator in place.
TranscriptAfterFailureKeepsTyping(conv) ==
  AppendAriaMessage(conv, ApologyText, <<>>, None)
\* The transcript once the catch block has handled a failed request.
TranscriptAfterFailure(conv) ==
  AppendAriaMessage(RemoveTyping(conv), ApologyText, <<>>, None)

Settle(reqs, i, status, d) ==
  [reqs EXCEPT ![i].status = status, ![i].reply = d, ![i].doneAt = Len(reqs)]

\* POST /api/chat answered 2xx with body d: sendMessage after its await.
ChatOk(i, d) ==
  /\ i \in 1..Len(chatReqs)
  /\ chatReqs[i].status = "pending"
  /\ conversation' = TranscriptAfterReply(conversation, d)
  /\ voiceStatus' = SetVoiceStatus(voiceStatus, "")
  /\ processStepsList' =
       IF domBound /\ d.steps.present THEN ProcessSteps(d.steps.items)
       ELSE processStepsList
  /\ sourcesList' =
       IF domBound /\ Len(d.sources) > 0 /\ ~UpdateContextThrows(d)
       THEN SourceLinks(d.sources) ELSE sourcesList
  /\ stepsList' =
       IF domBound /\ d.text # <<>> /\ ~UpdateContextThrows(d)
       THEN Append(stepsList, StepPreview(d.text)) ELSE stepsList
  /\ currentImageBase64' = RememberedAfterReply(d, currentImageBase64)
  /\ chatReqs' = Settle(chatReqs, i, "ok", d)
  /\ UNCHANGED << envVars, uploadVars, voiceVars, loadVars, textInput, holdRecording, docsList,
                  fileWarning, readers, sendActions >>

\* fetch rejected, or the response was not 2xx and the api function threw.
FailureKinds == { "rejected", "non2xx" }

\* POST /api/chat failed: the catch block of sendMessage, the same for both kinds
\* of failure.
ChatFail(i, how) ==
  /\ i \in 1..Len(chatReqs)
  /\ chatReqs[i].status = "pending"
  /\ conversation' = TranscriptAfterFailure(conversation)
  /\ voiceStatus' = SetVoiceStatus(voiceStatus, "")
  /\ how \in FailureKinds
  /\ chatReqs' = Settle(chatReqs, i, "failed", NoReply)
  /\ UNCHANGED << envVars, uploadVars, voiceVars, loadVars, textInput, holdRecording,
                  processStepsList, sourcesList, stepsList, docsList, fileWarning,
                  currentImageBase64, readers, sendActions >>

\* ------------------------------------------------------ typed sends, images
\* The user edits the text box.
TypeText(t) ==
  /\ page = "ready"
  /\ textInput # t
  /\ textInput' = t
  /\ UNCHANGED << envVars, uploadVars, voiceVars, chatVars, loadVars, conversation, voiceStatus,
                  holdRecording, processStepsList, sourcesList, stepsList, docsList,
                  fileWarning >>

\* sendBtn 'click'
ClickSend ==
  /\ listening
  /\ SendMessage(Trim(textInput), None, "user", voiceStatus)
  /\ UNCHANGED << envVars, uploadVars, voiceVars, loadVars, holdRecording, processStepsList,
                  sourcesList, stepsList, docsList, fileWarning, readers >>

\* textInput 'keydown' with Enter and no Shift
PressEnter ==
  /\ listening
  /\ SendMessage(Trim(textInput), None, "user", voiceStatus)
  /\ UNCHANGED << envVars, uploadVars, voiceVars, loadVars, holdRecording, processStepsList,
                  sourcesList, stepsList, docsList, fileWarning, readers >>

\* The base64 payload of the files the user can pick ("" for an empty file).
ImageFiles == { "", "imgA", "imgB" }

\* imageInput 'change' with a file: a FileReader starts reading it.
ImageChange(f) ==
  /\ listening
  /\ Len(readers) + Len(chatReqs) < MaxSends
  /\ readers' = Append(readers, f)
  /\ UNCHANGED << envVars, uploadVars, domVars, voiceVars, loadVars, currentImageBase64, chatReqs,
                  sendActions >>

RemoveAt(s, k) == SubSeq(s, 1, k - 1) \o SubSeq(s, k + 1, Len(s))

\* reader.onload: reader.result.split(',')[1], sent when it is not empty.
ReaderLoad(k) ==
  /\ k \in 1..Len(readers)
  /\ readers' = RemoveAt(readers, k)
  /\ IF readers[k] # ""
     THEN SendMessage(SeeAttachedImage, readers[k], "user", voiceStatus)
     ELSE UNCHANGED << conversation, textInput, voiceStatus, currentImageBase64,
                       chatReqs, sendActions >>
  /\ UNCHANGED << envVars, uploadVars, voiceVars, loadVars, holdRecording, processStepsList,
                  sourcesList, stepsList, docsList, fileWarning >>

\* ---------------------------------------------------------- voice recording
Recorder(st) == [stream |-> st, state |-> "recording", task |-> "none"]

\* startRecording up to its await: getUserMedia is called.
StartRecording ==
  /\ Len(gumReqs) < MaxPresses
  /\ gumReqs' = Append(gumReqs, "pending")

\* holdSpeak 'mousedown'
MouseDown ==
  /\ listening
  /\ press = "none"
  /\ press' = "mouse"
  /\ StartRecording
  /\ UNCHANGED << envVars, uploadVars, domVars, chatVars, loadVars, mediaRecorder, stream,
                  audioChunks, streams, recorders, transReqs >>

\* holdSpeak 'touchstart'
TouchStart ==
  /\ listening
  /\ press = "none"
  /\ press' = "touch"
  /\ StartRecording
  /\ UNCHANGED << envVars, uploadVars, domVars, chatVars, loadVars, mediaRecorder, stream,
                  audioChunks, streams, recorders, transReqs >>

\* getUserMedia resolved: startRecording after its await.
GumResolve(g) ==
  /\ g \in 1..Len(gumReqs)
  /\ gumReqs[g] = "pending"
  /\ gumReqs' = [gumReqs EXCEPT ![g] = "granted"]
  /\ streams' = Append(streams, TRUE)
  /\ stream' = Len(streams) + 1
  /\ recorders' = Append(recorders, Recorder(Len(streams) + 1))
  /\ mediaRecorder' = Len(recorders) + 1
  /\ audioChunks' = <<>>
  /\ holdRecording' = (domBound \/ holdRecording)
  /\ voiceStatus' = SetVoiceStatus(voiceStatus, StListening)
  /\ UNCHANGED << envVars, uploadVars, chatVars, loadVars, press, transReqs, conversation,
                  textInput, processStepsList, sourcesList, stepsList, docsList,
                  fileWarning >>

\* getUserMedia rejected: the catch block of startRecording.
GumReject(g) ==
  /\ g \in 1..Len(gumReqs)
  /\ gumReqs[g] = "pending"
  /\ gumReqs' = [gumReqs EXCEPT ![g] = "denied"]
  /\ voiceStatus' = SetVoiceStatus(voiceStatus, StMicNeeded)
  /\ UNCHANGED << envVars, uploadVars, chatVars, loadVars, press, mediaRecorder, stream,
                  audioChunks, streams, recorders, transReqs, conversation, textInput,
                  holdRecording, processStepsList, sourcesList, stepsList, docsList,
                  fileWarning >>

\* if (mediaRecorder && mediaRecorder.state !== 'inactive')
CanStop == mediaRecorder # 0 /\ recorders[mediaRecorder].state # "inactive"

\* stopRecording: MediaRecorder.stop() makes the recorder inactive and queues the
\* task that fires 'dataavailable' and then 'stop'.
StopRecording ==
  IF CanStop
  THEN /\ recorders' = [recorders EXCEPT ![mediaRecorder].state = "inactive",
                                         ![mediaRecorder].task = "queued"]
       /\ holdRecording' = (~domBound /\ holdRecording)
  ELSE UNCHANGED << recorders, holdRecording >>

\* holdSpeak 'mouseup'
MouseUp ==
  /\ listening
  /\ press \in {"none", "mouse"}
  /\ press' = "none"
  /\ StopRecording
  /\ UNCHANGED << envVars, uploadVars, chatVars, loadVars, mediaRecorder, stream, audioChunks,
                  streams, gumReqs, transReqs, conversation, textInput, voiceStatus,
                  processStepsList, sourcesList, stepsList, docsList, fileWarning >>

\* holdSpeak 'mouseleave'
MouseLeave ==
  /\ listening
  /\ press \in {"none", "mouse"}
  /\ press' = "none"
  /\ StopRecording
  /\ UNCHANGED << envVars, uploadVars, chatVars, loadVars, mediaRecorder, stream, audioChunks,
                  streams, gumReqs, transReqs, conversation, textInput, voiceStatus,
                  processStepsList, sourcesList, stepsList, docsList, fileWarning >>

\* holdSpeak 'touchend'
TouchEnd ==
  /\ listening
  /\ press = "touch"
  /\ press' = "none"
  /\ StopRecording
  /\ UNCHANGED << envVars, uploadVars, chatVars, loadVars, mediaRecorder, stream, audioChunks,
                  streams, gumReqs, transReqs, conversation, textInput, voiceStatus,
                  processStepsList, sourcesList, stepsList, docsList, fileWarning >>

\* The touch is cancelled by the browser: holdSpeak has no 'touchcancel' listener.
TouchCancel ==
  /\ listening
  /\ press = "touch"
  /\ press' = "none"
  /\ UNCHANGED << envVars, uploadVars, domVars, chatVars, loadVars, mediaRecorder, stream,
                  audioChunks, streams, recorders, gumReqs, transReqs >>

TranscribeRequest(r, blob) ==
  [rec |-> r, blob |-> blob, status |-> "pending", text |-> <<>>]

\* The task MediaRecorder.stop() queued: ondataavailable (the data is pushed when
\* it has a size), then onstop up to its await.
RecorderStopTask(r, hasData) ==
  /\ r \in 1..Len(recorders)
  /\ recorders[r].task = "queued"
  /\ recorders' = [recorders EXCEPT ![r].task = "done"]
  /\ audioChunks' = IF hasData THEN Append(audioChunks, r) ELSE audioChunks
  /\ streams' = [streams EXCEPT ![stream] = FALSE]
  /\ voiceStatus' = SetVoiceStatus(voiceStatus, StTranscribing)
  /\ transReqs' = Append(transReqs, TranscribeRequest(r, audioChunks'))
  /\ UNCHANGED << envVars, uploadVars, chatVars, loadVars, press, mediaRecorder, stream, gumReqs,
                  conversation, textInput, holdRecording, processStepsList,
                  sourcesList, stepsList, docsList, fileWarning >>

\* if (result.text) await sendMessage(result.text, null);
TranscriptIsSent(text) == text # <<>>

\* POST /api/transcribe answered 2xx with { text }: onstop after its await. When
\* sendMessage is not called, or returns at its guard, onstop's last statement
\* clears the status line at once.
TranscribeOk(t, text) ==
  /\ t \in 1..Len(transReqs)
  /\ transReqs[t].status = "pending"
  /\ transReqs' = [transReqs EXCEPT ![t].status = "ok", ![t].text = text]
  /\ IF TranscriptIsSent(text)
     THEN SendMessage(text, None, "voice", SetVoiceStatus(voiceStatus, ""))
     ELSE /\ voiceStatus' = SetVoiceStatus(voiceStatus, "")
          /\ UNCHANGED << conversation, textInput, currentImageBase64, chatReqs,
                          sendActions >>
  /\ UNCHANGED << envVars, uploadVars, loadVars, press, mediaRecorder, stream, audioChunks,
                  streams, recorders, gumReqs, holdRecording, processStepsList,
                  sourcesList, stepsList, docsList, fileWarning, readers >>

\* The status line when onstop has handled a failed transcription: the catch
\* block writes the error, and the statement after the try block clears it.
StatusAfterTranscribeFailure(old) ==
  SetVoiceStatus(SetVoiceStatus(old, StTranscriptionFailed), "")

\* POST /api/transcribe failed: the catch block of onstop.
TranscribeFail(t, how) ==
  /\ t \in 1..Len(transReqs)
  /\ transReqs[t].status = "pending"
  /\ how \in FailureKinds
  /\ transReqs' = [transReqs EXCEPT ![t].status = "failed"]
  /\ voiceStatus' = StatusAfterTranscribeFailure(voiceStatus)
  /\ UNCHANGED << envVars, uploadVars, chatVars, loadVars, press, mediaRecorder, stream,
                  audioChunks, streams, recorders, gumReqs, conversation, textInput,
                  holdRecording, processStepsList, sourcesList, stepsList, docsList,
                  fileWarning >>

\* ------------------------------------------------------------- page load
\* A getOrCreateSessionId without its catch block: no identifier when localStorage
\* throws.
GetOrCreateSessionIdNoCatch(n) ==
  IF storageMode = "broken" THEN NoId
  ELSE IF storageValue # NoId THEN storageValue
  ELSE IF hasCrypto
       THEN IF storageMode = "ok" THEN Uuid(n) ELSE NoId
       ELSE FallbackId(n)

\* getOrCreateSessionId: the identifier it returns on load number n.
GetOrCreateSessionId(n) ==
  IF storageMode = "broken" THEN FallbackId(n)
  ELSE IF storageValue # NoId THEN storageValue
  ELSE IF hasCrypto
       THEN IF storageMode = "ok" THEN Uuid(n) ELSE FallbackId(n)
       ELSE FallbackId(n)

\* localStorage['aria_session_id'] once getOrCreateSessionId has returned.
StoredAfterLoad(n) ==
  IF storageMode = "ok" /\ storageValue = NoId /\ hasCrypto THEN Uuid(n)
  ELSE storageValue

\* A runApp without the protocol check.
RunAppAnyProtocol ==
  /\ domBound' = TRUE
  /\ listening' = TRUE
  /\ initPc' = "session"
  /\ sessionReqId' = sessionId'
  /\ page' = "ready"
  /\ UNCHANGED fileWarning

\* runApp: the file-protocol warning, or bindDom, setupListeners and init up to
\* its first await.
RunApp ==
  IF protocol = "file"
  THEN /\ fileWarning' = TRUE
       /\ page' = "warned"
       /\ UNCHANGED << domBound, listening, initPc, sessionReqId >>
  ELSE /\ domBound' = TRUE
       /\ listening' = TRUE
       /\ initPc' = "session"
       /\ sessionReqId' = sessionId'
       /\ page' = "ready"
       /\ UNCHANGED fileWarning

\* The script is evaluated: its top-level statements run. The document is still
\* loading (runApp waits for DOMContentLoaded) or it is not (runApp runs now).
LoadScript(docLoading) ==
  /\ page = "unloaded"
  /\ loads < MaxLoads
  /\ loads' = loads + 1
  /\ sessionId' = GetOrCreateSessionId(loads + 1)
  /\ storageValue' = StoredAfterLoad(loads + 1)
  /\ IF docLoading
     THEN /\ page' = "waitingDom"
          /\ UNCHANGED << domBound, listening, initPc, fileWarning, sessionReqId >>
     ELSE RunApp
  /\ UNCHANGED << storageMode, hasCrypto, protocol, prevSessionId, kbVars, voiceVars, chatVars,
                  uploadVars, initHistory, sessionAnswer,
                  conversation, textInput, voiceStatus, holdRecording,
                  processStepsList, sourcesList, stepsList, docsList >>

\* 'DOMContentLoaded'
DomContentLoaded ==
  /\ page = "waitingDom"
  /\ UNCHANGED << envVars, uploadVars, voiceVars, chatVars, sessionId, initHistory,
                  sessionAnswer, conversation, textInput, voiceStatus, holdRecording,
                  processStepsList, sourcesList, stepsList, docsList >>
  /\ RunApp

Turn(role, content) == [role |-> role, content |-> content]
Roles == { "user", "assistant" }
TurnContents == { << "q" >> }
Turns == { Turn(r, c) : r \in Roles, c \in TurnContents }
\* The histories the session endpoint can return.
Histories == UNION { [1..n -> Turns] : n \in 0..MaxHistory }

\* session.history.forEach(...): one entry per turn.
RECURSIVE ReplayHistory(_, _)
ReplayHistory(conv, h) ==
  IF h = <<>> THEN conv
  ELSE ReplayHistory(
         IF Head(h).role = "user"
         THEN AppendUserMessage(conv, Head(h).content, NoImage)
         ELSE AppendAriaMessage(conv, Head(h).content, <<>>, None),
         Tail(h))

\* An init that shows the opening message before the replayed history too.
ShowHistoryAfterOpening(conv, h) ==
  ReplayHistory(AppendAriaMessage(conv, OpeningText, <<>>, None), h)
\* An init that shows nothing for an empty history.
ShowHistoryNoOpening(conv, h) == ReplayHistory(conv, h)
\* if (session.history && session.history.length > 0) ... else showOpeningMessage()
ShowHistory(conv, h) ==
  IF Len(h) > 0 THEN ReplayHistory(conv, h)
  ELSE AppendAriaMessage(conv, OpeningText, <<>>, None)

\* GET /api/session answered 2xx with history h: init after its first await, up to
\* its second.
SessionOk(h) ==
  /\ initPc = "session"
  /\ conversation' = ShowHistory(conversation, h)
  /\ initHistory' = h
  /\ sessionAnswer' = "history"
  /\ initPc' = "docs"
  /\ UNCHANGED << envVars, uploadVars, voiceVars, chatVars, page, sessionId, domBound,
                  listening, sessionReqId,
                  textInput, voiceStatus, holdRecording, processStepsList, sourcesList,
                  stepsList, docsList, fileWarning >>

\* An apiSession that throws on a non-2xx answer, as apiChat does.
SessionNotOkThrows ==
  /\ initPc = "session"
  /\ conversation' = AppendAriaMessage(conversation, ServerNoticeText, <<>>, None)
  /\ sessionAnswer' = "non2xx"
  /\ initPc' = "failed"
  /\ UNCHANGED << envVars, uploadVars, voiceVars, chatVars, page, sessionId, domBound,
                  listening, sessionReqId, initHistory, textInput, voiceStatus,
                  holdRecording, processStepsList, sourcesList, stepsList, docsList,
                  fileWarning >>

\* GET /api/session answered non-2xx: apiSession returns { history: [] }.
SessionNotOk ==
  /\ initPc = "session"
  /\ conversation' = ShowHistory(conversation, <<>>)
  /\ initHistory' = <<>>
  /\ sessionAnswer' = "non2xx"
  /\ initPc' = "docs"
  /\ UNCHANGED << envVars, uploadVars, voiceVars, chatVars, page, sessionId, domBound,
                  listening, sessionReqId,
                  textInput, voiceStatus, holdRecording, processStepsList, sourcesList,
                  stepsList, docsList, fileWarning >>

\* showOpeningMessage
ShowOpeningMessage(conv) == AppendAriaMessage(conv, OpeningText, <<>>, None)

\* GET /api/session answered 2xx with a body that has no history field:
\* session.history is undefined, the condition is falsy, the else branch runs.
SessionOkNoHistory ==
  /\ initPc = "session"
  /\ conversation' = ShowOpeningMessage(conversation)
  /\ initHistory' = <<>>
  /\ sessionAnswer' = "bare"
  /\ initPc' = "docs"
  /\ UNCHANGED << envVars, uploadVars, voiceVars, chatVars, page, sessionId, domBound,
                  listening, sessionReqId, textInput, voiceStatus, holdRecording,
                  processStepsList, sourcesList, stepsList, docsList, fileWarning >>

\* A catch block of init that only logs.
InitCatchSilent ==
  /\ initPc' = "failed"
  /\ UNCHANGED << envVars, uploadVars, voiceVars, chatVars, page, sessionId, domBound,
                  listening, sessionReqId, initHistory, domVars >>

\* A fetch of init rejected: the catch block of init.
InitCatch ==
  /\ conversation' = AppendAriaMessage(conversation, ServerNoticeText, <<>>, None)
  /\ initPc' = "failed"
  /\ UNCHANGED << envVars, uploadVars, voiceVars, chatVars, page, sessionId, domBound,
                  listening, sessionReqId, initHistory, textInput, voiceStatus, holdRecording, processStepsList,
                  sourcesList, stepsList, docsList, fileWarning >>

\* GET /api/session rejected.
SessionReject ==
  /\ initPc = "session"
  /\ sessionAnswer' = "rejected"
  /\ InitCatch

DocRecord(name, chunks) == [filename |-> name, chunks |-> chunks]
\* The document lists the documents endpoint can return.
DocLists == { <<>>, << DocRecord("notes.md", 3) >> }

\* One .doc-item of the document list; init renders no delete control.
DocItem(d, deletable) ==
  [filename |-> d.filename, chunks |-> d.chunks, delete |-> deletable]

RenderDocs(list, docs) ==
  IF domBound THEN list \o [i \in 1..Len(docs) |-> DocItem(docs[i], FALSE)] ELSE list

\* GET /api/documents answered 2xx: init after its second await.
DocsOk(docs) ==
  /\ initPc = "docs"
  /\ docsList' = RenderDocs(docsList, docs)
  /\ initPc' = "done"
  /\ UNCHANGED << envVars, uploadVars, voiceVars, chatVars, page, sessionId, domBound,
                  listening, sessionReqId, sessionAnswer, initHistory, conversation, textInput, voiceStatus, holdRecording,
                  processStepsList, sourcesList, stepsList, fileWarning >>

\* GET /api/documents answered non-2xx: apiDocuments returns { documents: [] }.
DocsNotOk ==
  /\ initPc = "docs"
  /\ docsList' = RenderDocs(docsList, <<>>)
  /\ initPc' = "done"
  /\ UNCHANGED << envVars, uploadVars, voiceVars, chatVars, page, sessionId, domBound,
                  listening, sessionReqId, sessionAnswer, initHistory, conversation, textInput, voiceStatus, holdRecording,
                  processStepsList, sourcesList, stepsList, fileWarning >>

\* GET /api/documents rejected.
DocsReject ==
  /\ initPc = "docs"
  /\ UNCHANGED sessionAnswer
  /\ InitCatch

\* --------------------------------------------------------- document upload
\* File names, one character per element.
GuideMd == << "g", ".", "m", "d" >>
ManualPdf == << "m", ".", "P", "D", "F" >>
PhotoPng == << "p", ".", "p", "n", "g" >>
\* The files the user can drop or select.
Files == { GuideMd, ManualPdf, PhotoPng }
\* What one drop or one selection can hold.
FileLists == UNION { [1..n -> Files] : n \in 1..MaxFiles }

\* The i flag of the pattern: letters compared without case.
LowerCase(c) ==
  CASE c = "P" -> "p"
    [] c = "D" -> "d"
    [] c = "F" -> "f"
    [] OTHER -> c
EndsWithNoCase(name, suffix) ==
  /\ Len(name) >= Len(suffix)
  /\ \A i \in 1..Len(suffix) :
       LowerCase(name[Len(name) - Len(suffix) + i]) = suffix[i]
DocSuffixes == { << ".", "p", "d", "f" >>, << ".", "m", "d" >>, << ".", "t", "x", "t" >> }
\* /\.(pdf|md|txt)$/i.test(f.name)
HasDocExtension(name) == \E suffix \in DocSuffixes : EndsWithNoCase(name, suffix)

\* Array.from(e.dataTransfer.files).filter(...)
DroppedFiles(given) == SelectSeq(given, HasDocExtension)
\* Array.from(fileInput.files || [])
SelectedFiles(given) == given

NoResult == DocRecord("", 0)
\* What POST /api/upload-documents can answer with: the stored name and its chunks.
UploadResults == { DocRecord("guide.md", 3), DocRecord("manual.pdf", 0) }

\* apiUploadDocument(file) up to its await, for file k of batch b.
UploadRequest(b, k, f) ==
  [batch |-> b, idx |-> k, file |-> f, status |-> "pending", result |-> NoResult]

\* The files the user has given so far.
RECURSIVE FilesGiven(_)
FilesGiven(bs) == IF bs = <<>> THEN 0 ELSE Len(Head(bs).given) + FilesGiven(Tail(bs))

\* A handler that starts the uploads of all its files at once.
StartBatchAllAtOnce(via, given, files) ==
  /\ FilesGiven(batches) + Len(given) <= MaxFiles
  /\ batches' = Append(batches, [via |-> via, given |-> given, files |-> files])
  /\ uploadReqs' =
       uploadReqs \o [k \in 1..Len(files) |-> UploadRequest(Len(batches) + 1, k, files[k])]

\* A handler starts its loop: for (const file of files) await uploadDoc(file).
StartBatch(via, given, files) ==
  /\ FilesGiven(batches) + Len(given) <= MaxFiles
  /\ batches' = Append(batches, [via |-> via, given |-> given, files |-> files])
  /\ uploadReqs' =
       IF files = <<>> THEN uploadReqs
       ELSE Append(uploadReqs, UploadRequest(Len(batches) + 1, 1, files[1]))

\* docsUpload 'drop'
DropFiles(given) ==
  /\ listening
  /\ StartBatch("drop", given, DroppedFiles(given))
  /\ UNCHANGED << envVars, domVars, voiceVars, chatVars, loadVars >>

\* fileInput 'change'
SelectFiles(given) ==
  /\ listening
  /\ StartBatch("select", given, SelectedFiles(given))
  /\ UNCHANGED << envVars, domVars, voiceVars, chatVars, loadVars >>

\* A loop that ends at the first failed upload.
NextUploadStopsOnFailure(reqs, u) ==
  LET r == reqs[u]
      fs == batches[r.batch].files
  IN  IF r.idx < Len(fs) /\ r.status = "ok"
      THEN Append(reqs, UploadRequest(r.batch, r.idx + 1, fs[r.idx + 1]))
      ELSE reqs
\* uploadDoc of request u has returned: the loop of its handler goes on to the
\* next file, if there is one.
NextUpload(reqs, u) ==
  LET r == reqs[u]
      fs == batches[r.batch].files
  IN  IF r.idx < Len(fs)
      THEN Append(reqs, UploadRequest(r.batch, r.idx + 1, fs[r.idx + 1]))
      ELSE reqs

\* The .doc-item uploadDoc appends: name, chunks badge and delete control.
UploadedItem(result) == DocItem(result, TRUE)

\* POST /api/upload-documents answered 2xx: uploadDoc after its await.
UploadOk(u, result) ==
  /\ u \in 1..Len(uploadReqs)
  /\ uploadReqs[u].status = "pending"
  /\ docsList' = IF domBound THEN Append(docsList, UploadedItem(result)) ELSE docsList
  /\ uploadReqs' =
       NextUpload([uploadReqs EXCEPT ![u].status = "ok", ![u].result = result], u)
  /\ UNCHANGED << envVars, voiceVars, chatVars, loadVars, batches, conversation,
                  textInput, voiceStatus, holdRecording, processStepsList, sourcesList,
                  stepsList, fileWarning >>

\* POST /api/upload-documents rejected or answered non-2xx: the catch of uploadDoc.
UploadFail(u, how) ==
  /\ u \in 1..Len(uploadReqs)
  /\ uploadReqs[u].status = "pending"
  /\ how \in FailureKinds
  /\ uploadReqs' = NextUpload([uploadReqs EXCEPT ![u].status = "failed"], u)
  /\ UNCHANGED << envVars, domVars, voiceVars, chatVars, loadVars, batches >>

\* The page's own state when a document has just been opened.
FreshPage ==
  /\ page = "unloaded"
  /\ press = "none"
  /\ sessionId = NoId
  /\ mediaRecorder = 0
  /\ stream = 0
  /\ audioChunks = <<>>
  /\ currentImageBase64 = None
  /\ domBound = FALSE
  /\ listening = FALSE
  /\ conversation = <<>>
  /\ textInput = <<>>
  /\ voiceStatus = ""
  /\ holdRecording = FALSE
  /\ processStepsList = <<>>
  /\ sourcesList = <<>>
  /\ stepsList = <<>>
  /\ docsList = <<>>
  /\ fileWarning = FALSE
  /\ streams = <<>>
  /\ recorders = <<>>
  /\ gumReqs = <<>>
  /\ transReqs = <<>>
  /\ chatReqs = <<>>
  /\ readers = <<>>
  /\ initPc = "none"
  /\ initHistory = <<>>
  /\ sessionAnswer = "none"
  /\ sessionReqId = NoId
  /\ batches = <<>>
  /\ uploadReqs = <<>>
  /\ sendActions = 0

\* The user reloads the page: the script's state and the DOM are gone, the calls in
\* flight are dropped, localStorage stays.
Reload ==
  /\ page # "unloaded"
  /\ loads < MaxLoads
  /\ page' = "unloaded"
  /\ press' = "none"
  /\ sessionId' = NoId
  /\ mediaRecorder' = 0
  /\ stream' = 0
  /\ audioChunks' = <<>>
  /\ currentImageBase64' = None
  /\ domBound' = FALSE
  /\ listening' = FALSE
  /\ conversation' = <<>>
  /\ textInput' = <<>>
  /\ voiceStatus' = ""
  /\ holdRecording' = FALSE
  /\ processStepsList' = <<>>
  /\ sourcesList' = <<>>
  /\ stepsList' = <<>>
  /\ docsList' = <<>>
  /\ fileWarning' = FALSE
  /\ streams' = <<>>
  /\ recorders' = <<>>
  /\ gumReqs' = <<>>
  /\ transReqs' = <<>>
  /\ chatReqs' = <<>>
  /\ readers' = <<>>
  /\ initPc' = "none"
  /\ initHistory' = <<>>
  /\ sessionAnswer' = "none"
  /\ sessionReqId' = NoId
  /\ batches' = <<>>
  /\ uploadReqs' = <<>>
  /\ sendActions' = 0
  /\ prevSessionId' = sessionId
  /\ UNCHANGED << storageMode, storageValue, hasCrypto, protocol, loads, kbVars >>

\* ----------------------------------------------------------- knowledge base
\* The files of the knowledge base, as their front-matter lines and their section
\* headings in file order: << "---" >> for a delimiter, << key, value >> for a
\* front-matter key, << "-", item >> for a list item under it, << "##", title >>
\* for a heading.
\* troubleshoot-agent/knowledge_base/docs/app_crashes_common.md
AppCrashesCommonMd ==
  << << "---" >>,
     << "title", "App Crashes Common" >>,
     << "category", "crashes" >>,
     << "severity", "medium" >>,
     << "updated", "2024-01-18" >>,
     << "has_images", "false" >>,
     << "image_urls", "[]" >>,
     << "---" >>,
     << "##", "Overview" >>,
     << "##", "Symptoms" >>,
     << "##", "Step-by-Step Fix" >>,
     << "##", "When to Contact Apple Support" >>,
     << "##", "Related Issues" >> >>
\* troubleshoot-agent/knowledge_base/docs/battery_drain_advanced.md
BatteryDrainAdvancedMd ==
  << << "---" >>,
     << "title", "Battery Drain Advanced" >>,
     << "category", "battery" >>,
     << "severity", "medium" >>,
     << "updated", "2024-01-15" >>,
     << "has_images", "false" >>,
     << "image_urls", "[]" >>,
     << "---" >>,
     << "##", "Overview" >>,
     << "##", "Symptoms" >>,
     << "##", "Step-by-Step Fix" >>,
     << "##", "When to Contact Apple Support" >>,
     << "##", "Related Issues" >> >>
\* troubleshoot-agent/knowledge_base/docs/overheating_causes.md
OverheatingCausesMd ==
  << << "---" >>,
     << "title", "Overheating Causes" >>,
     << "category", "overheating" >>,
     << "severity", "medium" >>,
     << "updated", "2024-01-10" >>,
     << "has_images", "false" >>,
     << "image_urls", "[]" >>,
     << "---" >>,
     << "##", "Overview" >>,
     << "##", "Symptoms" >>,
     << "##", "Step-by-Step Fix" >>,
     << "##", "When to Contact Apple Support" >>,
     << "##", "Related Issues" >> >>
\* troubleshoot-agent/knowledge_base/docs/overheating_fixes.md
OverheatingFixesMd ==
  << << "---" >>,
     << "title", "Overheating Fixes" >>,
     << "category", "overheating" >>,
     << "severity", "medium" >>,
     << "updated", "2024-01-10" >>,
     << "has_images", "false" >>,
     << "image_urls", "[]" >>,
     << "---" >>,
     << "##", "Overview" >>,
     << "##", "Symptoms" >>,
     << "##", "Step-by-Step Fix" >>,
     << "##", "When to Contact Apple Support" >>,
     << "##", "Related Issues" >>,
     << "---" >>,
     << "title", "App Crashes Advanced" >>,
     << "category", "crashes" >>,
     << "severity", "high" >>,
     << "updated", "2024-01-18" >>,
     << "has_images", "false" >>,
     << "image_urls", "[]" >>,
     << "---" >>,
     << "##", "Overview" >>,
     << "##", "Symptoms" >>,
     << "##", "Step-by-Step Fix" >>,
     << "##", "When to Contact Apple Support" >>,
     << "##", "Related Issues" >> >>
\* troubleshoot-agent/knowledge_base/docs/storage_full.md
StorageFullMd ==
  << << "---" >>,
     << "title", "Storage Full" >>,
     << "category", "storage" >>,
     << "severity", "high" >>,
     << "updated", "2024-01-22" >>,
     << "has_images", "true" >>,
     << "image_urls", "" >>,
     << "-", "https://support.apple.com/library/content/dam/edam/applecare/images/en_US/iphone/iphone-storage-settings.png" >>,
     << "---" >>,
     << "##", "Overview" >>,
     << "##", "Symptoms" >>,
     << "##", "Step-by-Step Fix" >>,
     << "##", "When to Contact Apple Support" >>,
     << "##", "Related Issues" >> >>
\* troubleshoot-agent/knowledge_base/docs/wifi_slow_speeds.md
WifiSlowSpeedsMd ==
  << << "---" >>,
     << "title", "Wi-Fi Slow Speeds" >>,
     << "category", "wifi" >>,
     << "severity", "low" >>,
     << "updated", "2024-01-20" >>,
     << "has_images", "false" >>,
     << "image_urls", "[]" >>,
     << "---" >>,
     << "##", "Overview" >>,
     << "##", "Symptoms" >>,
     << "##", "Step-by-Step Fix" >>,
     << "##", "When to Contact Apple Support" >>,
     << "##", "Related Issues" >> >>
\* unnamed/part_000
Part000 ==
  << << "---" >>,
     << "title", "Battery Drain Basics" >>,
     << "category", "battery" >>,
     << "severity", "low" >>,
     << "updated", "2024-01-15" >>,
     << "has_images", "true" >>,
     << "image_urls", "" >>,
     << "-", "https://support.apple.com/library/content/dam/edam/applecare/images/en_US/iphone/iphone-14-pro-battery-settings.png" >>,
     << "---" >>,
     << "##", "Overview" >>,
     << "##", "Symptoms" >>,
     << "##", "Step-by-Step Fix" >>,
     << "##", "When to Contact Apple Support" >>,
     << "##", "Related Issues" >> >>
\* unnamed/part_001
Part001 ==
  << << "---" >>,
     << "title", "Wi-Fi Connection Issues" >>,
     << "category", "wifi" >>,
     << "severity", "medium" >>,
     << "updated", "2024-01-20" >>,
     << "has_images", "true" >>,
     << "image_urls", "" >>,
     << "-", "https://support.apple.com/library/content/dam/edam/applecare/images/en_US/iphone/iphone-wi-fi-settings.png" >>,
     << "---" >>,
     << "##", "Overview" >>,
     << "##", "Symptoms" >>,
     << "##", "Step-by-Step Fix" >>,
     << "##", "When to Contact Apple Support" >>,
     << "##", "Related Issues" >> >>
\* unnamed/part_002
Part002 ==
  << << "---" >>,
     << "title", "Storage Management" >>,
     << "category", "storage" >>,
     << "severity", "low" >>,
     << "updated", "2024-01-22" >>,
     << "has_images", "false" >>,
     << "image_urls", "[]" >>,
     << "---" >>,
     << "##", "Overview" >>,
     << "##", "Symptoms" >>,
     << "##", "Step-by-Step Fix" >>,
     << "##", "When to Contact Apple Support" >>,
     << "##", "Related Issues" >> >>
\* unnamed/part_003
Part003 ==
  << << "---" >>,
     << "title", "Bluetooth Issues" >>,
     << "category", "bluetooth" >>,
     << "severity", "medium" >>,
     << "updated", "2024-01-12" >>,
     << "has_images", "false" >>,
     << "image_urls", "[]" >>,
     << "---" >>,
     << "##", "Overview" >>,
     << "##", "Symptoms" >>,
     << "##", "Step-by-Step Fix" >>,
     << "##", "When to Contact Apple Support" >>,
     << "##", "Related Issues" >>,
     << "---" >>,
     << "title", "Screen Issues" >>,
     << "category", "screen" >>,
     << "severity", "medium" >>,
     << "updated", "2024-01-08" >>,
     << "has_images", "false" >>,
     << "image_urls", "[]" >>,
     << "---" >>,
     << "##", "Overview" >>,
     << "##", "Symptoms" >>,
     << "##", "Step-by-Step Fix" >>,
     << "##", "When to Contact Apple Support" >>,
     << "##", "Related Issues" >> >>

KnowledgeBase ==
  << AppCrashesCommonMd, BatteryDrainAdvancedMd, OverheatingCausesMd,
     OverheatingFixesMd, StorageFullMd, WifiSlowSpeedsMd,
     Part000, Part001, Part002, Part003 >>

IsDelimiter(line) == line = << "---" >>
IsHeading(line, title) == line = << "##", title >>
IsKey(line, key) == Len(line) > 1 /\ line[1] = key
IsListItem(line) == Len(line) > 1 /\ line[1] = "-"

\* Front-matter blocks: each is opened by one delimiter and closed by the next.
FrontMatterBlocks(lines) == Len(SelectSeq(lines, IsDelimiter)) \div 2
SectionCount(lines, title) == Len(SelectSeq(lines, LAMBDA l : IsHeading(l, title)))

\* A has_images value that is read as false whatever it says.
HasImagesValueIgnored(value) == FALSE
\* has_images: true | false
HasImagesValue(value) == value = "true"

NoFrontMatter == [open |-> FALSE, hasImages |-> FALSE, imageUrls |-> 0]
\* The front-matter blocks of a file, each as its has_images flag and the number
\* of its image_urls items; cur is the block being read.
RECURSIVE FrontMatters(_, _, _)
FrontMatters(lines, cur, done) ==
  IF lines = <<>> THEN done
  ELSE LET l == Head(lines)
       IN  IF IsDelimiter(l)
           THEN IF cur.open
                THEN FrontMatters(Tail(lines), NoFrontMatter,
                       Append(done, [hasImages |-> cur.hasImages,
                                     imageUrls |-> cur.imageUrls]))
                ELSE FrontMatters(Tail(lines), [NoFrontMatter EXCEPT !.open = TRUE], done)
           ELSE IF cur.open /\ IsKey(l, "has_images")
           THEN FrontMatters(Tail(lines),
                  [cur EXCEPT !.hasImages = HasImagesValue(l[2])], done)
           ELSE IF cur.open /\ IsListItem(l)
           THEN FrontMatters(Tail(lines), [cur EXCEPT !.imageUrls = @ + 1], done)
           ELSE FrontMatters(Tail(lines), cur, done)

\* The lines read so far of the file being read.
LinesRead == IF kbDoc = 0 THEN <<>> ELSE SubSeq(KnowledgeBase[kbDoc], 1, kbRead)
WholeFileRead == kbDoc # 0 /\ kbRead = Len(KnowledgeBase[kbDoc])

\* A reader opens a file of the knowledge base.
OpenDocument(d) ==
  /\ kbDoc = 0
  /\ d \in 1..Len(KnowledgeBase)
  /\ kbDoc' = d
  /\ kbRead' = 0
  /\ UNCHANGED << storageMode, storageValue, hasCrypto, protocol, loads, prevSessionId,
                  domVars, voiceVars, chatVars, loadVars, uploadVars >>

\* It reads the next line.
ReadLine ==
  /\ kbDoc # 0
  /\ kbRead < Len(KnowledgeBase[kbDoc])
  /\ kbRead' = kbRead + 1
  /\ UNCHANGED << kbDoc, storageMode, storageValue, hasCrypto, protocol, loads,
                  prevSessionId, domVars, voiceVars, chatVars, loadVars, uploadVars >>

\* It has read the whole file and closes it.
CloseDocument ==
  /\ WholeFileRead
  /\ kbDoc' = 0
  /\ kbRead' = 0
  /\ UNCHANGED << storageMode, storageValue, hasCrypto, protocol, loads, prevSessionId,
                  domVars, voiceVars, chatVars, loadVars, uploadVars >>

\* ---------------------------------------------------------- specifications
\* A browser about to open the page: with no identifier stored yet, or with the
\* one an earlier visit stored.
Init ==
  /\ storageMode \in { "ok", "readonly", "broken" }
  /\ storageValue \in { NoId, Uuid(0) }
  /\ hasCrypto \in BOOLEAN
  /\ protocol \in { "http", "file" }
  /\ loads = 0
  /\ prevSessionId = NoId
  /\ kbDoc = 0
  /\ kbRead = 0
  /\ FreshPage

\* The page served over http in a browser with working storage, loaded, with init
\* finished on an empty history and an empty document list.
InitReady ==
  /\ storageMode = "ok"
  /\ storageValue = Uuid(1)
  /\ hasCrypto = TRUE
  /\ protocol = "http"
  /\ loads = 1
  /\ prevSessionId = NoId
  /\ kbDoc = 0
  /\ kbRead = 0
  /\ page = "ready"
  /\ press = "none"
  /\ sessionId = Uuid(1)
  /\ mediaRecorder = 0
  /\ stream = 0
  /\ audioChunks = <<>>
  /\ currentImageBase64 = None
  /\ domBound = TRUE
  /\ listening = TRUE
  /\ conversation = << OpeningEntry >>
  /\ textInput = <<>>
  /\ voiceStatus = ""
  /\ holdRecording = FALSE
  /\ processStepsList = <<>>
  /\ sourcesList = <<>>
  /\ stepsList = <<>>
  /\ docsList = <<>>
  /\ fileWarning = FALSE
  /\ streams = <<>>
  /\ recorders = <<>>
  /\ gumReqs = <<>>
  /\ transReqs = <<>>
  /\ chatReqs = <<>>
  /\ readers = <<>>
  /\ initPc = "done"
  /\ initHistory = <<>>
  /\ sessionAnswer = "history"
  /\ sessionReqId = Uuid(1)
  /\ batches = <<>>
  /\ uploadReqs = <<>>
  /\ sendActions = 0

ChatSettles ==
  \/ \E i \in 1..MaxSends, d \in { ReplyPlain, ReplyObjects } : ChatOk(i, d)
  \/ \E i \in 1..MaxSends, how \in FailureKinds : ChatFail(i, how)

\* Typed sends and image attachments.
NextChat ==
  \/ \E t \in TypedTexts : TypeText(t)
  \/ ClickSend
  \/ PressEnter
  \/ \E f \in ImageFiles : ImageChange(f)
  \/ \E k \in 1..MaxSends : ReaderLoad(k)
  \/ ChatSettles

\* The voice control, and the chat requests its transcripts lead to.
NextVoice ==
  \/ MouseDown
  \/ MouseUp
  \/ MouseLeave
  \/ TouchStart
  \/ TouchEnd
  \/ TouchCancel
  \/ \E g \in 1..MaxPresses : GumResolve(g)
  \/ \E g \in 1..MaxPresses : GumReject(g)
  \/ \E r \in 1..MaxPresses, hasData \in BOOLEAN : RecorderStopTask(r, hasData)
  \/ \E t \in 1..MaxPresses, text \in TranscriptTexts : TranscribeOk(t, text)
  \/ \E t \in 1..MaxPresses, how \in FailureKinds : TranscribeFail(t, how)
  \/ \E i \in 1..MaxSends : ChatOk(i, ReplyPlain)
  \/ \E i \in 1..MaxSends : ChatFail(i, "rejected")

\* Loading and reloading the page.
NextLoad ==
  \/ \E docLoading \in BOOLEAN : LoadScript(docLoading)
  \/ DomContentLoaded
  \/ \E h \in Histories : SessionOk(h)
  \/ SessionNotOk
  \/ SessionOkNoHistory
  \/ SessionReject
  \/ \E docs \in DocLists : DocsOk(docs)
  \/ DocsNotOk
  \/ DocsReject
  \/ Reload

\* Every action, with every reply.
Next ==
  \/ NextLoad
  \/ NextChat
  \/ NextVoice
  \/ \E i \in 1..MaxSends, d \in Replies \cup StepReplies : ChatOk(i, d)
  \/ \E given \in FileLists : DropFiles(given)
  \/ \E given \in FileLists : SelectFiles(given)
  \/ \E u \in 1..MaxFiles, result \in UploadResults : UploadOk(u, result)
  \/ \E u \in 1..MaxFiles, how \in FailureKinds : UploadFail(u, how)
  \/ \E d \in 1..Len(KnowledgeBase) : OpenDocument(d)
  \/ ReadLine
  \/ CloseDocument

SpecChat == InitReady /\ [][NextChat]_vars
SpecVoice == InitReady /\ [][NextVoice]_vars
SpecLoad == Init /\ [][NextLoad]_vars
Spec == Init /\ [][Next]_vars

\* Send actions of the user so far: presses, image reads and typed sends.
Gestures ==
  Len(gumReqs) + Len(readers)
    + Cardinality({ i \in 1..Len(chatReqs) : chatReqs[i].via = "user" })

\* Every kind of send action together: typed, Enter, image and voice, with the
\* mouse as the only pointer and one reply; MaxSends bounds the user's gestures.
NextSend ==
  \/ \E t \in { <<>>, <<" ", "h", "i", " ">> } : TypeText(t)
  \/ (Gestures < MaxSends /\ ClickSend)
  \/ (Gestures < MaxSends /\ PressEnter)
  \/ (Gestures < MaxSends /\ ImageChange("imgA"))
  \/ \E k \in 1..MaxSends : ReaderLoad(k)
  \/ (Gestures < MaxSends /\ MouseDown)
  \/ MouseUp
  \/ \E g \in 1..MaxPresses : GumResolve(g)
  \/ \E r \in 1..MaxPresses : RecorderStopTask(r, TRUE)
  \/ \E t \in 1..MaxPresses, text \in { <<" ">>, <<"h", "i">> } : TranscribeOk(t, text)
  \/ \E i \in 1..MaxSends : ChatOk(i, ReplyPlain)
  \/ \E i \in 1..MaxSends : ChatFail(i, "rejected")

SpecSend == InitReady /\ [][NextSend]_vars

\* The sends a page has used up: its own, and one for having been reloaded.
SendsSoFar == sendActions + (IF prevSessionId = NoId THEN 0 ELSE 1)

\* Loading the page, with typed sends while init is under way or after it; the
\* session answers with an empty history or not at all, and a reloaded page has
\* one send fewer than MaxSends.
NextPage ==
  \/ \E docLoading \in BOOLEAN : LoadScript(docLoading)
  \/ DomContentLoaded
  \/ SessionOk(<<>>)
  \/ SessionNotOk
  \/ SessionOkNoHistory
  \/ SessionReject
  \/ DocsOk(<<>>)
  \/ DocsNotOk
  \/ DocsReject
  \/ Reload
  \/ TypeText(<<" ", "h", "i", " ">>)
  \/ (SendsSoFar < MaxSends /\ ClickSend)
  \/ \E i \in 1..MaxSends : ChatOk(i, ReplyPlain)
  \/ \E i \in 1..MaxSends : ChatFail(i, "rejected")

SpecPage == Init /\ [][NextPage]_vars

\* Dropping and selecting documents.
NextDocs ==
  \/ \E given \in FileLists : DropFiles(given)
  \/ \E given \in FileLists : SelectFiles(given)
  \/ \E u \in 1..MaxFiles, result \in UploadResults : UploadOk(u, result)
  \/ \E u \in 1..MaxFiles, how \in FailureKinds : UploadFail(u, how)

SpecDocs == InitReady /\ [][NextDocs]_vars

\* Every kind of event the user can cause on a page, over http or from a file;
\* MaxSends bounds the events of one page, and no request is answered but those
\* of init.
NextEvents ==
  \/ \E docLoading \in BOOLEAN : LoadScript(docLoading)
  \/ DomContentLoaded
  \/ SessionOk(<<>>)
  \/ SessionReject
  \/ DocsOk(<<>>)
  \/ Reload
  \/ TypeText(<<" ", "h", "i", " ">>)
  \/ (Gestures + Len(batches) < MaxSends /\ ClickSend)
  \/ (Gestures + Len(batches) < MaxSends /\ PressEnter)
  \/ (Gestures + Len(batches) < MaxSends /\ ImageChange("imgA"))
  \/ (Gestures + Len(batches) < MaxSends /\ MouseDown)
  \/ (Gestures + Len(batches) < MaxSends /\ TouchStart)
  \/ MouseUp
  \/ TouchEnd
  \/ (Gestures + Len(batches) < MaxSends /\ DropFiles(<< GuideMd >>))
  \/ (Gestures + Len(batches) < MaxSends /\ SelectFiles(<< GuideMd >>))

SpecEvents == Init /\ [][NextEvents]_vars

\* Typed sends answered with replies that carry reasoning steps.
NextSteps ==
  \/ TypeText(<<" ", "h", "i", " ">>)
  \/ ClickSend
  \/ \E i \in 1..MaxSends, d \in StepReplies : ChatOk(i, d)

SpecSteps == InitReady /\ [][NextSteps]_vars

\* Reading the files of the knowledge base, one at a time.
NextKb ==
  \/ \E d \in 1..Len(KnowledgeBase) : OpenDocument(d)
  \/ ReadLine
  \/ CloseDocument

SpecKb == InitReady /\ [][NextKb]_vars

\* ------------------------------------------------------------------ claims
WithoutTyping(conv) == SelectSeq(conv, LAMBDA e : e.cls # "typing")
ExitsPress == press # "none" /\ press' = "none"
LastChat(reqs) == reqs[Len(reqs)]

\* C1: every exit of a press (release, pointer leaving, touch cancel) taken while
\* the recorder is recording stops the recorder and queues its stop handler, which
\* stops the stream's tracks.
C1_RecorderStoppedOnEveryExit ==
  [][ (ExitsPress /\ mediaRecorder # 0 /\ recorders[mediaRecorder].state = "recording")
        => /\ recorders'[mediaRecorder].state = "inactive"
           /\ recorders'[mediaRecorder].task = "queued" ]_vars

\* The step in which transcription request t is answered with text that is not
\* blank.
TranscriptArrives(t) ==
  /\ transReqs[t].status = "pending"
  /\ transReqs'[t].status = "ok"
  /\ HasContent(transReqs'[t].text, None)

VoiceRequestIssued(t) ==
  /\ Len(chatReqs') = Len(chatReqs) + 1
  /\ SubSeq(chatReqs', 1, Len(chatReqs)) = chatReqs
  /\ LastChat(chatReqs').message = Trim(transReqs'[t].text)
  /\ LastChat(chatReqs').session = sessionId
  /\ LastChat(chatReqs').status = "pending"
  /\ LastChat(chatReqs').via = "voice"

\* C2 (as amended): when a transcription succeeds with text T that is not blank,
\* the same step issues exactly one chat request with message trim(T) and the
\* current session id, and appends trim(T) as a user turn; no click or Enter is
\* involved.
C2_VoiceAutoSubmit ==
  [][ \A t \in 1..Len(transReqs) : TranscriptArrives(t) =>
        /\ VoiceRequestIssued(t)
        /\ WithoutTyping(conversation') =
             Append(WithoutTyping(conversation),
                    UserEntry(Trim(transReqs'[t].text), NoImage)) ]_vars

\* C2 as stated: the user turn appended is T itself.
C2_TranscriptAppendedVerbatim ==
  [][ \A t \in 1..Len(transReqs) : TranscriptArrives(t) =>
        /\ VoiceRequestIssued(t)
        /\ WithoutTyping(conversation') =
             Append(WithoutTyping(conversation),
                    UserEntry(transReqs'[t].text, NoImage)) ]_vars

\* A transcript with spaces around it was sent by voice, trimmed.
C2_Witness ==
  \E t \in 1..Len(transReqs), i \in 1..Len(chatReqs) :
    /\ transReqs[t].status = "ok"
    /\ transReqs[t].text = << " ", "h", "i", " " >>
    /\ chatReqs[i].via = "voice"
    /\ chatReqs[i].message = << "h", "i" >>
    /\ \E k \in 1..Len(conversation) :
         conversation[k] = UserEntry(<< "h", "i" >>, NoImage)

\* C3: when a transcription request fails, the status line shows the error once
\* the stop handler has finished, and no chat request is issued.
C3_ErrorStatusLeftVisible ==
  [][ \A t \in 1..Len(transReqs) :
        (transReqs[t].status = "pending" /\ transReqs'[t].status = "failed") =>
          /\ voiceStatus' = StTranscriptionFailed
          /\ chatReqs' = chatReqs ]_vars

\* C4: a failed chat request appends exactly one apology, leaves no typing
\* indicator and an empty status line; a send after a failure issues a new request.
C4_ChatFailureHandled ==
  [][ /\ \A i \in 1..Len(chatReqs) :
           (chatReqs[i].status = "pending" /\ chatReqs'[i].status = "failed") =>
             /\ conversation' = Append(WithoutTyping(conversation), ApologyEntry)
             /\ voiceStatus' = ""
             /\ Len(chatReqs') = Len(chatReqs)
      /\ ((\E i \in 1..Len(chatReqs) : chatReqs[i].status = "failed")
            /\ sendActions' = sendActions + 1) =>
           /\ Len(chatReqs') = Len(chatReqs) + 1
           /\ LastChat(chatReqs').status = "pending" ]_vars

\* A request failed, its apology is in the transcript, and a later send issued a
\* new request.
C4_Witness ==
  \E i, j \in 1..Len(chatReqs) :
    /\ chatReqs[i].status = "failed"
    /\ chatReqs[i].doneAt < j
    /\ \E k \in 1..Len(conversation) : conversation[k] = ApologyEntry

\* C5: every 2xx reply of the documented shape adds exactly one assistant entry
\* with its text and sources to the transcript, and no apology.
C5_ReplyRenderedOnce ==
  [][ \A i \in 1..Len(chatReqs) :
        (chatReqs[i].status = "pending" /\ chatReqs'[i].status = "ok") =>
          conversation' =
            Append(WithoutTyping(conversation),
                   AriaEntry(chatReqs'[i].reply.text, chatReqs'[i].reply.sources,
                             chatReqs'[i].reply.audio)) ]_vars

\* A 2xx reply arrived after request n was issued and before the next one was.
ReplyBetween(n) ==
  \E k \in 1..Len(chatReqs) : chatReqs[k].status = "ok" /\ chatReqs[k].doneAt = n

\* C6 (as amended): a send without a fresh image, right after a send that attached
\* image b, carries b, provided no 2xx reply arrived between the two sends.
C6_ImageCarriedUntilReply ==
  \A n \in 1..(Len(chatReqs) - 1) :
    (chatReqs[n].fresh # None /\ chatReqs[n + 1].fresh = None /\ ~ReplyBetween(n))
      => chatReqs[n + 1].image = chatReqs[n].fresh

\* C6 as stated: the next send without a fresh image always carries the image.
C6_NextSendCarriesImage ==
  \A n \in 1..(Len(chatReqs) - 1) :
    (chatReqs[n].fresh # None /\ chatReqs[n + 1].fresh = None)
      => chatReqs[n + 1].image = chatReqs[n].fresh

\* The image's own request failed and the follow-up carried the image.
C6_Witness ==
  /\ Len(chatReqs) >= 2
  /\ chatReqs[1].fresh = "imgA"
  /\ chatReqs[1].status = "failed"
  /\ chatReqs[1].doneAt = 1
  /\ chatReqs[2].fresh = None
  /\ chatReqs[2].image = "imgA"

\* C7: once a 2xx reply has been handled the remembered image is empty; a failed
\* request leaves it as it was.
C7_ImageClearedOnSuccess ==
  [][ \A i \in 1..Len(chatReqs) :
        /\ (chatReqs[i].status = "pending" /\ chatReqs'[i].status = "ok")
             => currentImageBase64' = None
        /\ (chatReqs[i].status = "pending" /\ chatReqs'[i].status = "failed")
             => currentImageBase64' = currentImageBase64 ]_vars

\* C8: the chat requests ever issued are as many as the send actions that had
\* text or an image to send.
C8_OneRequestPerSend == Len(chatReqs) = sendActions

\* A voice send and a typed or image send, one of them failed and none re-issued.
C8_Witness ==
  /\ sendActions = 2
  /\ \E i, j \in 1..Len(chatReqs) :
       /\ chatReqs[i].via = "voice"
       /\ chatReqs[j].via = "user"
       /\ chatReqs[i].status = "failed"

\* C9: the release that follows a denied microphone request stops no recorder, so
\* no transcription request and no chat request follow from it.
C9_ReleaseAfterDenialIsQuiet ==
  [][ (ExitsPress /\ gumReqs # <<>> /\ gumReqs[Len(gumReqs)] = "denied")
        => recorders' = recorders ]_vars

\* One transcript entry per history turn, in order.
ExpectedReplay(h) ==
  [i \in 1..Len(h) |->
     IF h[i].role = "user" THEN UserEntry(h[i].content, NoImage)
     ELSE AriaEntry(h[i].content, <<>>, None)]

\* C10: on every load, once init has replayed a non-empty history the transcript
\* is exactly one entry per turn, in order, user turns as user entries and the
\* others as assistant entries, with no opening message: the same history gives
\* the same transcript on every load.
C10_HistoryReplayed ==
  initHistory # <<>> =>
    /\ initPc \in { "docs", "done" } => conversation = ExpectedReplay(initHistory)
    /\ initPc = "failed" =>
         conversation = Append(ExpectedReplay(initHistory), ServerNoticeEntry)
    /\ \A k \in 1..Len(conversation) : conversation[k] # OpeningEntry

\* A reload replayed an assistant turn followed by a user turn.
C10_Witness ==
  /\ loads = 2
  /\ initPc = "done"
  /\ Len(initHistory) = 2
  /\ initHistory[1].role = "assistant"
  /\ initHistory[2].role = "user"
  /\ Len(conversation) = 2

\* The opening messages of a transcript.
Openings(conv) == SelectSeq(conv, LAMBDA e : e = OpeningEntry)
\* The session request has been answered with a body.
SessionAnswered == sessionAnswer \in { "history", "bare", "non2xx" }

\* C11: when the session's history is empty, init has appended exactly one opening
\* message once the session request is answered; a page load never has more than
\* one opening message, and none next to a replayed history.
C11_OpeningOnEmptyHistory ==
  /\ Len(Openings(conversation)) <= 1
  /\ (SessionAnswered /\ initHistory = <<>>) =>
       /\ Len(Openings(conversation)) = 1
       /\ Head(conversation) = OpeningEntry
  /\ initHistory # <<>> => Openings(conversation) = <<>>
  /\ ~SessionAnswered => Openings(conversation) = <<>>
C11_Witness ==
  /\ sessionAnswer = "history"
  /\ initHistory = <<>>
  /\ initPc = "done"
  /\ conversation = << OpeningEntry >>
  /\ loads = 2

\* The session request is settled in this step, in one of the given ways.
SessionSettles(ways) == sessionAnswer = "none" /\ sessionAnswer' \in ways
\* init goes on as for an empty history: the opening message, then the documents
\* request.
AsForEmptyHistory ==
  /\ conversation' = Append(conversation, OpeningEntry)
  /\ initPc' = "docs"

\* C12: a non-2xx answer of the session request, or a body without a history
\* field, is handled as an empty history (opening message, then the documents
\* request, whose list is rendered); a rejected session request shows the
\* could-not-reach notice instead, and the documents are never requested.
C12_SessionFailure ==
  [][ /\ SessionSettles({ "non2xx", "bare" }) => AsForEmptyHistory
      /\ SessionSettles({ "rejected" }) =>
           /\ conversation' = Append(conversation, ServerNoticeEntry)
           /\ initPc' = "failed"
      /\ sessionAnswer' = "rejected" => (initPc' = "failed" /\ docsList' = <<>>)
      /\ (initPc = "docs" /\ initPc' = "done") =>
           \E docs \in DocLists :
             docsList' = docsList \o [i \in 1..Len(docs) |-> DocItem(docs[i], FALSE)]
    ]_vars
\* C12 as stated: every failure of the session request, a rejection included, is
\* handled as an empty history.
C12_AnyFailureAsEmpty ==
  [][ SessionSettles({ "non2xx", "bare", "rejected" }) => AsForEmptyHistory ]_vars
C12_Witness ==
  /\ sessionAnswer = "non2xx"
  /\ initPc = "done"
  /\ conversation = << OpeningEntry >>
  /\ docsList = << DocItem(DocRecord("notes.md", 3), FALSE) >>

\* A send action with content is taken in this step.
SendTaken == sendActions' = sendActions + 1

\* C13: when a request of init is rejected the could-not-reach notice is appended
\* to the transcript; the listeners were bound before, so a send after the
\* failure still appends the user turn and issues a chat request.
C13_InitFailureNonFatal ==
  [][ /\ (initPc # "failed" /\ initPc' = "failed") =>
           /\ conversation' = Append(conversation, ServerNoticeEntry)
           /\ listening /\ listening'
      /\ (initPc = "failed" /\ SendTaken) =>
           /\ Len(chatReqs') = Len(chatReqs) + 1
           /\ LastChat(chatReqs').status = "pending"
           /\ LastChat(chatReqs').session = sessionId
           /\ LastChat(chatReqs').message = << "h", "i" >>
           /\ \E k \in 1..Len(conversation') :
                /\ conversation'[k] = UserEntry(<< "h", "i" >>, NoImage)
                /\ Len(SelectSeq(conversation', LAMBDA e : e.cls = "user"))
                     = Len(SelectSeq(conversation, LAMBDA e : e.cls = "user")) + 1
    ]_vars
C13_Witness ==
  /\ initPc = "failed"
  /\ sessionAnswer = "rejected"
  /\ Len(conversation) >= 2
  /\ conversation[1] = ServerNoticeEntry
  /\ conversation[2] = UserEntry(<< "h", "i" >>, NoImage)
  /\ Len(chatReqs) = 1

\* C14: with localStorage readable and writable, a page load resolves the
\* sessionId of the page load before it.
C14_SameIdOnReload ==
  (storageMode = "ok" /\ page # "unloaded" /\ prevSessionId # NoId) =>
    sessionId = prevSessionId

\* C15: whatever localStorage does, a loaded page has a non-empty sessionId; it
\* does not change while the page lives, and the session request and every chat
\* request of the page carry it.
C15_SessionIdStable ==
  /\ [](page # "unloaded" =>
          /\ sessionId # NoId
          /\ \A i \in 1..Len(chatReqs) : chatReqs[i].session = sessionId
          /\ initPc # "none" => sessionReqId = sessionId)
  /\ [][ (page # "unloaded" /\ page' # "unloaded") => sessionId' = sessionId ]_vars
C15_Witness ==
  /\ storageMode = "readonly"
  /\ storageValue = NoId
  /\ hasCrypto
  /\ loads = 2
  /\ sessionId = FallbackId(2)
  /\ sessionReqId = FallbackId(2)
  /\ initPc = "done"
  /\ Len(chatReqs) = 1
  /\ chatReqs[1].session = FallbackId(2)

\* C16: every file submitted to the upload endpoint has the extension .pdf, .md
\* or .txt, in any case.
C16_OnlyDocumentsSubmitted ==
  \A u \in 1..Len(uploadReqs) : HasDocExtension(uploadReqs[u].file)

\* The upload requests of batch b, in the order they were issued.
ReqsOf(b) == SelectSeq(uploadReqs, LAMBDA r : r.batch = b)
PendingUploads == { u \in 1..Len(uploadReqs) : uploadReqs[u].status = "pending" }

\* C17: the requests of one drop or selection are one per file, in the order of
\* its files, each issued only when the one before it has completed; so one
\* drop or selection never has two requests outstanding.
C17_SequentialPerBatch ==
  \A b \in 1..Len(batches) :
    LET rs == ReqsOf(b)
        fs == batches[b].files
    IN  /\ Len(rs) <= Len(fs)
        /\ fs # <<>> => Len(rs) >= 1
        /\ \A k \in 1..Len(rs) :
             /\ rs[k].idx = k
             /\ rs[k].file = fs[k]
             /\ k < Len(rs) => rs[k].status # "pending"
\* C17 as stated: at no time is more than one upload request outstanding.
C17_OneUploadOutstanding == Cardinality(PendingUploads) <= 1
C17_Witness ==
  /\ Len(batches) = 1
  /\ batches[1].files = << GuideMd, ManualPdf >>
  /\ Len(uploadReqs) = 2
  /\ uploadReqs[1].status = "ok"
  /\ uploadReqs[2].status = "pending"
  /\ uploadReqs[2].file = ManualPdf

\* Request u is settled in this step, with the given status.
UploadSettles(u, status) ==
  /\ u \in PendingUploads
  /\ uploadReqs'[u].status = status
\* The loop of request u's handler goes on in this step.
LoopGoesOn(u) ==
  LET r == uploadReqs[u]
      fs == batches[r.batch].files
  IN  IF r.idx < Len(fs)
      THEN /\ Len(uploadReqs') = Len(uploadReqs) + 1
           /\ LET n == uploadReqs'[Len(uploadReqs')]
              IN  /\ n.batch = r.batch
                  /\ n.idx = r.idx + 1
                  /\ n.file = fs[r.idx + 1]
                  /\ n.status = "pending"
      ELSE Len(uploadReqs') = Len(uploadReqs)

\* No file of a batch has two requests, and with no upload outstanding every file
\* of every batch has one.
EachFileOnce ==
  /\ \A u, v \in 1..Len(uploadReqs) :
       (uploadReqs[u].batch = uploadReqs[v].batch
          /\ uploadReqs[u].idx = uploadReqs[v].idx) => u = v
  /\ PendingUploads = {} =>
       \A b \in 1..Len(batches) : Len(ReqsOf(b)) = Len(batches[b].files)

\* C18: a failed upload adds nothing to the document list and the loop goes on to
\* the next file; a successful upload adds exactly one entry, with the filename
\* and the chunk count of the answer; no file is submitted twice, and when no
\* upload is outstanding every file of every batch has been submitted.
C18_UploadFailureIsolated ==
  /\ [][ \A u \in 1..Len(uploadReqs) :
           /\ UploadSettles(u, "failed") => (docsList' = docsList /\ LoopGoesOn(u))
           /\ UploadSettles(u, "ok") =>
                /\ Len(docsList') = Len(docsList) + 1
                /\ SubSeq(docsList', 1, Len(docsList)) = docsList
                /\ docsList'[Len(docsList')].filename = uploadReqs'[u].result.filename
                /\ docsList'[Len(docsList')].chunks = uploadReqs'[u].result.chunks
                /\ LoopGoesOn(u)
       ]_vars
  /\ []EachFileOnce
C18_Witness ==
  /\ Len(batches) = 1
  /\ Len(uploadReqs) = 2
  /\ uploadReqs[1].status = "failed"
  /\ uploadReqs[2].status = "ok"
  /\ uploadReqs[2].result = DocRecord("manual.pdf", 0)
  /\ docsList = << DocItem(DocRecord("manual.pdf", 0), TRUE) >>

\* C19: a page opened over the file: protocol shows the warning once runApp has
\* run, and for as long as it lives it has no element bound, no listener, no init
\* and no request.
C19_FileProtocolInert ==
  protocol = "file" =>
    /\ page \in { "unloaded", "waitingDom", "warned" }
    /\ page = "warned" <=> fileWarning
    /\ ~domBound /\ ~listening
    /\ initPc = "none" /\ sessionReqId = NoId /\ sessionAnswer = "none"
    /\ chatReqs = <<>> /\ transReqs = <<>> /\ uploadReqs = <<>>
    /\ gumReqs = <<>> /\ readers = <<>> /\ batches = <<>>
    /\ conversation = <<>> /\ docsList = <<>>
C19_Witness ==
  /\ protocol = "file"
  /\ page = "warned"
  /\ fileWarning
  /\ loads = 2
  /\ sessionId # NoId

\* The prefix of each of the three phases.
PhasePrefix(p) ==
  CASE p = "think" -> "Think: "
    [] p = "act" -> "Act: "
    [] p = "observe" -> "Observe: "
\* Chat request i is answered 2xx in this step.
ReplyArrives(i) == chatReqs[i].status = "pending" /\ chatReqs'[i].status = "ok"

\* C20: when a reply with a steps array arrives, the process-step list becomes one
\* entry per step, in the order of the array, each with the text of its step
\* after the prefix of its phase.
C20_ProcessStepsRendered ==
  [][ \A i \in 1..Len(chatReqs) :
        (ReplyArrives(i) /\ chatReqs'[i].reply.steps.present) =>
          LET items == chatReqs'[i].reply.steps.items
          IN  /\ Len(processStepsList') = Len(items)
              /\ \A k \in 1..Len(items) :
                   processStepsList'[k].text
                     = << PhasePrefix(items[k].phase) >> \o items[k].text
    ]_vars
C20_Witness ==
  /\ Len(chatReqs) = 2
  /\ \E i \in 1..2 : chatReqs[i].status = "ok" /\ chatReqs[i].reply = ReplyLong
  /\ \E i \in 1..2 : chatReqs[i].status = "ok" /\ chatReqs[i].reply = ReplyAllPhases
  /\ Len(processStepsList) = 3
  /\ processStepsList[1].text = << "Think: ", "t" >>
  /\ processStepsList[2].text = << "Act: ", "a" >>
  /\ processStepsList[3].text = << "Observe: ", "b" >>

RequiredSections ==
  { "Overview", "Symptoms", "Step-by-Step Fix", "When to Contact Apple Support" }

\* C21: a file of the knowledge base, read to its end, holds exactly one
\* front-matter block, exactly one of each required section and at most one
\* Related Issues section.
C21_OneDocumentPerFile ==
  WholeFileRead =>
    /\ FrontMatterBlocks(LinesRead) = 1
    /\ \A title \in RequiredSections : SectionCount(LinesRead, title) = 1
    /\ SectionCount(LinesRead, "Related Issues") <= 1

\* C22: in every front-matter block read, has_images is true exactly when the
\* block lists at least one image URL.
C22_ImageFlagConsistent ==
  LET fms == FrontMatters(LinesRead, NoFrontMatter, <<>>)
  IN  \A k \in 1..Len(fms) : fms[k].hasImages <=> fms[k].imageUrls > 0
C22_Witness ==
  /\ WholeFileRead
  /\ KnowledgeBase[kbDoc] = StorageFullMd
  /\ FrontMatters(LinesRead, NoFrontMatter, <<>>)
       = << [hasImages |-> TRUE, imageUrls |-> 1] >>

\* Recorder r's stop task runs in this step: its audio is packaged into a blob
\* and the transcription request is issued.
AudioPackaged(r) == recorders[r].task = "queued" /\ recorders'[r].task = "done"

\* C23: once the audio of a stopped recording has been packaged, the audio-chunk
\* buffer is empty.
C23_AudioBufferCleared ==
  [][ \A r \in 1..Len(recorders) : AudioPackaged(r) => audioChunks' = <<>> ]_vars

\* The typing indicators in the transcript.
TypingIndicators == SelectSeq(conversation, LAMBDA e : e.cls = "typing")
\* The chat requests that are neither answered nor failed.
OutstandingChats == { i \in 1..Len(chatReqs) : chatReqs[i].status = "pending" }

\* C24: the transcript never holds more than one typing indicator, and holds none
\* when no chat request is outstanding.
C24_TypingTransient ==
  /\ Len(TypingIndicators) <= 1
  /\ OutstandingChats = {} => TypingIndicators = <<>>
C24_Witness ==
  /\ Len(chatReqs) = 2
  /\ OutstandingChats = {}
  /\ chatReqs[1].doneAt = 2
  /\ chatReqs[1].status = "ok"
  /\ chatReqs[2].status = "failed"
  /\ TypingIndicators = <<>>

\* The assistant entry (reply or apology) of chat request i is appended in this
\* step.
AssistantEntryAppended(i) ==
  chatReqs[i].status = "pending" /\ chatReqs'[i].status # "pending"

\* C25: the assistant entry of a send is appended only when the assistant entry
\* of every earlier send has been.
C25_RepliesInSendOrder ==
  [][ \A i \in 1..Len(chatReqs) :
        AssistantEntryAppended(i) =>
          \A j \in 1..(i - 1) : chatReqs[j].status # "pending"
    ]_vars

\* Nothing of the voice control is under way: it is not held, every getUserMedia
\* call has resolved and every queued stop task has run.
VoiceQuiet ==
  /\ press = "none"
  /\ \A g \in 1..Len(gumReqs) : gumReqs[g] # "pending"
  /\ \A r \in 1..Len(recorders) : recorders[r].task # "queued"

\* C26: when nothing of the voice control is under way, no MediaRecorder is
\* recording and the tracks of every acquired stream are stopped.
C26_NoRecordingOutlivesPress ==
  VoiceQuiet =>
    /\ \A r \in 1..Len(recorders) : recorders[r].state = "inactive"
    /\ \A k \in 1..Len(streams) : ~streams[k]

\* The remembered image is cleared in this step.
ImageCleared == currentImageBase64 # None /\ currentImageBase64' = None

\* C27: when the success of a chat request clears the remembered image, that
\* request carried the image.
C27_ClearedOnlyByCarrier ==
  [][ \A i \in 1..Len(chatReqs) :
        (ReplyArrives(i) /\ ImageCleared) => chatReqs[i].image = currentImageBase64
    ]_vars

\* C28: while a chat request is outstanding the transcript holds a typing
\* indicator.
C28_TypingWhileOutstanding == OutstandingChats # {} => TypingIndicators # <<>>

\* An entry init has put into the transcript: a replayed turn or the opening
\* message.
FromInit(e) == e = OpeningEntry \/ e.text \in TurnContents
\* A user turn composed on this page.
ComposedHere(e) == e.cls = "user" /\ e.text \notin TurnContents

\* C29: in the transcript no turn composed on this page stands before an entry
\* replayed from the history or before the opening message.
C29_ReplayBeforeNewTurns ==
  \A j, k \in 1..Len(conversation) :
    (j < k /\ ComposedHere(conversation[j])) => ~FromInit(conversation[k])

\* The text box holds nothing but white space.
EmptyInput == \A i \in 1..Len(textInput) : textInput[i] = Space
\* What a send may not touch when it has nothing to send.
sendFrame == << conversation, chatReqs, textInput, voiceStatus, currentImageBase64 >>

\* C30: with an empty or white-space text box, a click on the send button or
\* Enter calls sendMessage without a fresh image; the call can be made, and it
\* changes neither the transcript (typing indicator included), nor the chat
\* requests, the text box, the status line or the remembered image.
C30_EmptySendNoOp ==
  (listening /\ EmptyInput) =>
    /\ ENABLED (ClickSend /\ UNCHANGED vars)
    /\ ~ENABLED (ClickSend /\ sendFrame' # sendFrame)
    /\ ENABLED (PressEnter /\ UNCHANGED vars)
    /\ ~ENABLED (PressEnter /\ sendFrame' # sendFrame)
C30_Witness ==
  /\ listening
  /\ textInput = << " " >>
  /\ currentImageBase64 = "imgA"
  /\ OutstandingChats # {}
  /\ TypingIndicators # <<>>
  /\ voiceStatus = StThinking
  /\ ENABLED (ClickSend /\ UNCHANGED vars)

====
